---- MODULE Spec2Model ----
(***************************************************************************)
(* feedforger: the cache store (db.py), the bounded-concurrency fetcher    *)
(* (network.py) and the pipeline that composes them (main.py).             *)
(*                                                                         *)
(* Optional values (Python None / SQL NULL) are sequences of length at     *)
(* most one: None is <<>>, a present value v is <<v>>.  The empty string   *)
(* is therefore a present value, <<"">>, distinct from None.               *)
(*                                                                         *)
(* The wall clock `now` counts ticks of 1/TicksPerSec seconds; the code    *)
(* stores and compares whole seconds, int(datetime.timestamp()).           *)
(***************************************************************************)
EXTENDS Integers, Sequences, FiniteSets, TLC

VARIABLES
    now,            \* wall clock, in ticks
    ticks,          \* number of clock advances so far (bounded)
    feeds,          \* table feeds: id -> row, DOMAIN feeds = the ids present
    lastOp,         \* the last cache-store call made from outside, and its result
    streak,         \* history: per id, the number of failed writes since the last
                    \* successful write (or since the row was deleted)
    fetcher,        \* the FeedFetcher: its client, max_concurrent and semaphore value
    tasks,          \* the fetch_url / fetch_item_content coroutines of the running calls
    calls,          \* the running fetch_urls / fetch_items_content calls
    okAt,           \* history: per url, the last request for it that succeeded: when,
                    \* of which kind, and in which call; forgotten when cleanup
                    \* deletes the url's row
    pf,             \* the running (or last) call of process_feeds or of
                    \* fulfill_items_content: position and locals
    runNo,          \* number of such calls started so far (bounded)
    mainRun,        \* how the last run of main() ended
    writers,        \* set_content calls running concurrently on one store, each on
                    \* its own connection: arguments, position, the clock value it
                    \* read, the row of its open transaction, its place in the
                    \* order of commits
    origin          \* history: per id, which part of the pipeline wrote the row last:
                    \* "feed" (process_feeds), "item" (fulfill_items_content), or
                    \* "none" (no row, or a row written by another caller)

storeVars == <<feeds, lastOp, streak>>
fetchVars == <<fetcher, tasks, calls, okAt>>
pipeVars == <<pf, runNo, mainRun>>
vars == <<now, ticks, feeds, lastOp, streak, fetcher, tasks, calls, okAt,
          pf, runNo, mainRun, writers, origin>>

----------------------------------------------------------------------------
(* Bounds of the model *)

TicksPerSec == 2
MaxTicks == 2
MaxFailCount == 3
MaxSlots == 2
MaxTasks == 3
MaxRuns == 2
MaxWriters == 3

(* Program constants *)

DefaultTtl == 1800
DefaultDays == 7
DefaultMinFailCount == 30
DefaultMaxConcurrent == 5
HtmlThreshold == 500
TextThreshold == 300
ShortTitle == 10

RetentionSecs == DefaultDays * 86400

None == <<>>
Some(v) == <<v>>
IsNone(o) == o = <<>>
Val(o) == o[1]

Keys == {"a", "b"}
Reasons == {"timeout", "http 500"}
TTLs == {1, DefaultTtl}
KeyLists == {<<>>, <<"a">>, <<"a", "b">>, <<"b", "a", "b">>}

(* Clock advances, in ticks: one tick, the default ttl less one tick (one   *)
(* more tick reaches the ttl exactly), and the cleanup retention.          *)
Deltas == {1, DefaultTtl * TicksPerSec - 1, RetentionSecs * TicksPerSec}

StartTicks == 2 * RetentionSecs * TicksPerSec

----------------------------------------------------------------------------
(* db.py *)

\* int(datetime.now(UTC).timestamp())
Timestamp(t) == t \div TicksPerSec

\* int((datetime.now(UTC) - timedelta(seconds=secs)).timestamp())
Cutoff(t, secs) == (t - secs * TicksPerSec) \div TicksPerSec

\* The lookup with the cutoff itself counted as fresh (updated_at >= cutoff)
get_content_inclusive(db, t, url, ttl) ==
    IF url \in DOMAIN db /\ db[url].updated_at >= Cutoff(t, ttl) /\ ~IsNone(db[url].content)
    THEN db[url].content
    ELSE None

\* SELECT content ... WHERE id = ? AND updated_at > ?; a row with NULL content is no hit
get_content(db, t, url, ttl) ==
    IF url \in DOMAIN db /\ db[url].updated_at > Cutoff(t, ttl) /\ ~IsNone(db[url].content)
    THEN db[url].content
    ELSE None

\* The rows of the IN (...) query alone, without the initial result
batch_get_content_hits_only(db, t, urls, ttl) ==
    [url \in {k \in {urls[i] : i \in 1..Len(urls)} :
                 k \in DOMAIN db /\ db[k].updated_at > Cutoff(t, ttl)
                     /\ ~IsNone(db[k].content)} |->
        db[url].content]

\* result = {url: None for url in urls}, then the rows of the IN (...) query
batch_get_content(db, t, urls, ttl) ==
    [url \in {urls[i] : i \in 1..Len(urls)} |->
        IF url \in DOMAIN db /\ db[url].updated_at > Cutoff(t, ttl) /\ ~IsNone(db[url].content)
        THEN db[url].content
        ELSE None]

\* The row written by the failure branch when it keeps the old payload
UpsertRowKeepContent(db, t, url, content, success, error_reason) ==
    IF success
    THEN [content |-> content,
          created_at |-> IF url \in DOMAIN db THEN db[url].created_at ELSE Timestamp(t),
          updated_at |-> Timestamp(t),
          continue_fail_count |-> 0,
          error_reason |-> None]
    ELSE [content |-> IF url \in DOMAIN db THEN db[url].content ELSE None,
          created_at |-> IF url \in DOMAIN db THEN db[url].created_at ELSE Timestamp(t),
          updated_at |-> Timestamp(t),
          continue_fail_count |-> IF url \in DOMAIN db THEN db[url].continue_fail_count + 1 ELSE 1,
          error_reason |-> error_reason]

\* The row written when the failure branch sets the counter instead of adding to it
UpsertRowNoIncrement(db, t, url, content, success, error_reason) ==
    IF success
    THEN [content |-> content,
          created_at |-> IF url \in DOMAIN db THEN db[url].created_at ELSE Timestamp(t),
          updated_at |-> Timestamp(t),
          continue_fail_count |-> 0,
          error_reason |-> None]
    ELSE [content |-> None,
          created_at |-> IF url \in DOMAIN db THEN db[url].created_at ELSE Timestamp(t),
          updated_at |-> Timestamp(t),
          continue_fail_count |-> 1,
          error_reason |-> error_reason]

\* The row written when the success branch leaves the counter and the reason of an
\* existing row as they were
UpsertRowKeepCount(db, t, url, content, success, error_reason) ==
    IF success
    THEN [content |-> content,
          created_at |-> IF url \in DOMAIN db THEN db[url].created_at ELSE Timestamp(t),
          updated_at |-> Timestamp(t),
          continue_fail_count |-> IF url \in DOMAIN db THEN db[url].continue_fail_count ELSE 0,
          error_reason |-> IF url \in DOMAIN db THEN db[url].error_reason ELSE None]
    ELSE [content |-> None,
          created_at |-> IF url \in DOMAIN db THEN db[url].created_at ELSE Timestamp(t),
          updated_at |-> Timestamp(t),
          continue_fail_count |-> IF url \in DOMAIN db THEN db[url].continue_fail_count + 1 ELSE 1,
          error_reason |-> error_reason]

\* The row written when every write replaces the row, created_at included
UpsertRowReplace(db, t, url, content, success, error_reason) ==
    IF success
    THEN [content |-> content,
          created_at |-> Timestamp(t),
          updated_at |-> Timestamp(t),
          continue_fail_count |-> 0,
          error_reason |-> None]
    ELSE [content |-> None,
          created_at |-> Timestamp(t),
          updated_at |-> Timestamp(t),
          continue_fail_count |-> IF url \in DOMAIN db THEN db[url].continue_fail_count + 1 ELSE 1,
          error_reason |-> error_reason]

\* INSERT ... ON CONFLICT(id) DO UPDATE SET ...: the row the upsert leaves for url.
\* success branch: content, fail count 0, error NULL; failure branch: content NULL,
\* fail count + 1 (1 for a new row), error_reason.  created_at is set on insert only.
UpsertRow(db, t, url, content, success, error_reason) ==
    IF success
    THEN [content |-> content,
          created_at |-> IF url \in DOMAIN db THEN db[url].created_at ELSE Timestamp(t),
          updated_at |-> Timestamp(t),
          continue_fail_count |-> 0,
          error_reason |-> None]
    ELSE [content |-> None,
          created_at |-> IF url \in DOMAIN db THEN db[url].created_at ELSE Timestamp(t),
          updated_at |-> Timestamp(t),
          continue_fail_count |-> IF url \in DOMAIN db THEN db[url].continue_fail_count + 1 ELSE 1,
          error_reason |-> error_reason]

\* A write that replaces the table by the one row written
set_content_only_row(db, t, url, content, success, error_reason) ==
    [k \in {url} |-> UpsertRow(db, t, url, content, success, error_reason)]

\* Database.set_content: one upsert and a commit; `success` is the truth value of
\* the argument
set_content(db, t, url, content, success, error_reason) ==
    [k \in DOMAIN db \cup {url} |->
        IF k = url THEN UpsertRow(db, t, url, content, success, error_reason) ELSE db[k]]

\* SELECT id FROM feeds
get_all_feed_ids(db) == DOMAIN db

\* SELECT id FROM feeds WHERE continue_fail_count >= ?
get_failed_feed_ids(db, min_fail_count) ==
    {k \in DOMAIN db : db[k].continue_fail_count >= min_fail_count}

\* {url for feed in get_recipes().values() for url in feed["urls"]}: a FeedConfig is a
\* pydantic model and cannot be subscripted, so the comprehension raises TypeError as
\* soon as there is one recipe to visit
RecipeUrlsRaises(rs) == Len(rs) > 0

\* The set the comprehension is written to build
RecipeUrls(rs) == UNION {{rs[i].urls[j] : j \in 1..Len(rs[i].urls)} : i \in 1..Len(rs)}

\* DELETE FROM feeds WHERE updated_at < ? AND continue_fail_count = 0
OldSuccessful(db, t, days) ==
    {k \in DOMAIN db : db[k].updated_at < Cutoff(t, days * 86400)
                       /\ db[k].continue_fail_count = 0}

Restrict(db, ks) == [k \in ks |-> db[k]]

\* Database.cleanup: the first DELETE runs inside the connection's open transaction;
\* the recipe comprehension raises before db.commit() whenever a recipe exists, the
\* connection is closed by its context manager and the DELETE is rolled back.
\* Without recipes every remaining id is orphaned (get_all_feed_ids reads the
\* committed table through its own connection) and is deleted, then commit.
cleanup(db, t, days, rs) ==
    IF RecipeUrlsRaises(rs)
    THEN [feeds |-> db, raised |-> TRUE, deleted |-> 0]
    ELSE LET old == OldSuccessful(db, t, days)
             urls_to_remove == get_all_feed_ids(db) \ RecipeUrls(rs)
             gone == old \cup urls_to_remove
         IN  [feeds |-> Restrict(db, DOMAIN db \ gone),
              raised |-> FALSE,
              deleted |-> Cardinality(gone)]

----------------------------------------------------------------------------
(* utils.py: extract_main_content over the pages the model serves.  A page is    *)
(* described by what the parser finds in it.                                     *)

NullResult == [content_html |-> None, content_text |-> None, title |-> None]

\* What BeautifulSoup finds in each page body: the <title> text, the container the
\* selectors (or the largest div) pick, and the step that raises, if any
PageOf(html) ==
    CASE html = "P1" -> [title |-> Some("AI Breakthroughs in 2024"),
                         container |-> Some([html |-> "<article>full</article>",
                                             text |-> "full"]),
                         raises |-> "no"]
      [] html = "P2" -> [title |-> Some("Go"),
                         container |-> Some([html |-> "<main>go</main>", text |-> "go"]),
                         raises |-> "no"]
      [] html = "P0" -> [title |-> None, container |-> None, raises |-> "no"]
      [] OTHER       -> [title |-> None, container |-> None, raises |-> "parse"]

ItemBodies == {"P1", "P2", "P0"}

\* The steps of the try block in which an exception can arise: BeautifulSoup(html),
\* the title lookup, the selectors and the largest-div fallback, the removal of
\* script and style elements, str(content), content.get_text(); "no": none raises
ExtractSteps == {"no", "parse", "title", "select", "clean", "html", "text"}

\* The body of extract_main_content on a parsed page.  result starts all-None and
\* is filled as the steps succeed: the title, then content_html, then
\* content_text; `except Exception` returns result as filled so far.  The last
\* three steps run only when a container was found.
ExtractFrom(page) ==
    LET titled == [NullResult EXCEPT !.title = page.title]
    IN  IF page.raises \in {"parse", "title"} THEN NullResult
        ELSE IF page.raises = "select" \/ IsNone(page.container) THEN titled
        ELSE IF page.raises \in {"clean", "html"} THEN titled
        ELSE IF page.raises = "text"
        THEN [titled EXCEPT !.content_html = Some(Val(page.container).html)]
        ELSE [content_html |-> Some(Val(page.container).html),
              content_text |-> Some(Val(page.container).text),
              title |-> page.title]

\* extract_main_content(html, url)
extract_main_content(html, url) == ExtractFrom(PageOf(html))

\* The pages extract_main_content is called on directly: every combination of a
\* title, a container and a step that raises
Pages ==
    [title : {None, Some("Go"), Some("AI Breakthroughs in 2024")},
     container : {None,
                  Some([html |-> "<article>full</article>", text |-> "full"]),
                  Some([html |-> "<main>go</main>", text |-> "go"])},
     raises : ExtractSteps]

\* json.dumps of an extraction result
JsonValue(o) == IF IsNone(o) THEN "null" ELSE "\"" \o Val(o) \o "\""
json_dumps(d) ==
    "{" \o JsonValue(d.content_html) \o "," \o JsonValue(d.content_text)
        \o "," \o JsonValue(d.title) \o "}"

\* The contents the callers of the store hand to it in its own checks: an empty
\* document, a feed, and a serialized extraction result
StoreContents == {"", "X", json_dumps(extract_main_content("P2", ""))}

\* The bodies feed urls are served with: these, and the JSON documents null and [1]
Contents == StoreContents \cup {"null", "[1]"}

----------------------------------------------------------------------------
(* network.py *)

NoException == [type |-> "", msg |-> ""]

\* The exceptions client.get raises without a response: a transport error, a
\* timeout, more than max_redirects redirects
TransportErrors ==
    { [type |-> "ConnectError", msg |-> "All connection attempts failed"],
      [type |-> "ReadTimeout", msg |-> "timed out"],
      [type |-> "TooManyRedirects", msg |-> "Exceeded maximum allowed redirects."] }

\* The status codes the model's servers answer with
Statuses == {200, 404}

\* What the network answers to client.get(url): a response with a status and a
\* body (status 0: none), or an exception
Responses(kind) ==
    {[status |-> 200, body |-> b, exc |-> NoException] :
        b \in IF kind = "feed" THEN Contents ELSE ItemBodies}
    \cup {[status |-> st, body |-> "", exc |-> NoException] : st \in Statuses \ {200}}
    \cup {[status |-> 0, body |-> "", exc |-> e] : e \in TransportErrors}

\* The try block without response.raise_for_status(): only client.get raises
RaisedInTryUnchecked(resp) == resp.exc

\* The exception raised inside the try block, NoException if none: the one of
\* client.get, or HTTPStatusError from response.raise_for_status() for a status
\* outside 2xx
RaisedInTry(resp) ==
    IF resp.exc # NoException THEN resp.exc
    ELSE IF resp.status \notin 200..299
    THEN [type |-> "HTTPStatusError", msg |-> "Client error '404 Not Found'"]
    ELSE NoException

\* error_msg = f"{type(e).__name__}: {str(e)}"
error_msg(e) == e.type \o ": " \o e.msg

\* The error messages a request can end with
NetErrors == {error_msg(RaisedInTry(r)) : r \in {x \in Responses("feed") : RaisedInTry(x) # NoException}}

\* fetch_url(url) once its request has ended with resp: (url, response.text, None),
\* or (url, None, error_msg) from `except Exception`
fetch_url(url, resp) ==
    LET e == RaisedInTry(resp)
    IN  IF e = NoException
        THEN [url |-> url, content |-> Some(resp.body), item |-> None, error |-> None]
        ELSE [url |-> url, content |-> None, item |-> None, error |-> Some(error_msg(e))]

\* fetch_item_content(url) once its request has ended with resp:
\* (url, extract_main_content(response.text, url), None), or (url, None, error_msg)
fetch_item_content(url, resp) ==
    LET e == RaisedInTry(resp)
    IN  IF e = NoException
        THEN [url |-> url, content |-> None,
              item |-> Some(extract_main_content(resp.body, url)), error |-> None]
        ELSE [url |-> url, content |-> None, item |-> None, error |-> Some(error_msg(e))]

NoFetcher == [client |-> "none", max_concurrent |-> 0, semaphore |-> 0]

\* FeedFetcher.__init__: an open client and asyncio.Semaphore(max_concurrent)
FeedFetcher(max_concurrent) ==
    [client |-> "open", max_concurrent |-> max_concurrent, semaphore |-> max_concurrent]

\* A coroutine of fetch_url (kind "feed") or fetch_item_content (kind "item"), not
\* yet inside `async with self.semaphore`.  History: asked is the url it was called
\* with, resp what the network answered to its request.
NewTask(call, kind, url) ==
    [call |-> call, kind |-> kind, url |-> url, st |-> "Pending",
     content |-> None, item |-> None, error |-> None,
     sent_at |-> 0, prior_ok |-> None, resp |-> None, asked |-> url]

RECURSIVE NewTasks(_, _, _)
NewTasks(call, kind, urls) ==
    IF urls = <<>> THEN <<>>
    ELSE <<NewTask(call, kind, Head(urls))>> \o NewTasks(call, kind, Tail(urls))

\* fetch_urls / fetch_items_content: tasks = [self.fetch_...(url) for url in urls]
NewCall(kind, urls) ==
    [kind |-> kind, total |-> Len(urls), done |-> <<>>, results |-> <<>>,
     returned |-> FALSE]

\* The exit of `async with self.semaphore` when a failed request keeps its slot
ReleaseOnSuccessOnly(f, ok) ==
    IF ok THEN [f EXCEPT !.semaphore = @ + 1] ELSE f

\* The exit of `async with self.semaphore`: release(), whether the block returned
\* a response or caught an exception
Release(f, ok) == [f EXCEPT !.semaphore = @ + 1]

\* The entry of `async with self.semaphore` when the gate lets a request through
\* with no slot left
CanAcquireUnbounded(f) == TRUE

\* Semaphore.acquire() returns without waiting only while the value is positive
CanAcquire(f) == f.semaphore > 0

\* The tuple fetch_url / fetch_item_content returns
TaskResult(t) == [url |-> t.url, content |-> t.content, item |-> t.item, error |-> t.error]

\* A task enters `async with self.semaphore` and sends its request
Acquire(i) ==
    /\ tasks[i].st = "Pending"
    /\ CanAcquire(fetcher)
    /\ fetcher' = [fetcher EXCEPT !.semaphore = @ - 1]
    /\ tasks' = [tasks EXCEPT ![i].st = "InFlight", ![i].sent_at = now,
                              ![i].prior_ok = okAt[tasks[i].url]]
    /\ UNCHANGED <<now, ticks, writers, origin, storeVars, calls, okAt, pipeVars>>

\* The request of task i ends with resp: the coroutine leaves the semaphore block
\* with its result and as_completed queues it for its call
Finish(i, resp) ==
    /\ tasks[i].st = "InFlight"
    /\ LET r == IF tasks[i].kind = "feed" THEN fetch_url(tasks[i].url, resp)
                 ELSE fetch_item_content(tasks[i].url, resp)
           ok == IsNone(r.error)
       IN  /\ fetcher' = Release(fetcher, ok)
           /\ tasks' = [tasks EXCEPT
                           ![i].st = IF ok THEN "Success" ELSE "Failed",
                           ![i].url = r.url,
                           ![i].content = r.content,
                           ![i].item = r.item,
                           ![i].error = r.error,
                           ![i].resp = Some(resp)]
           /\ okAt' = IF ok
                      THEN [okAt EXCEPT ![tasks[i].url] =
                               Some([at |-> now, kind |-> tasks[i].kind, run |-> runNo])]
                      ELSE okAt
    /\ calls' = [calls EXCEPT ![tasks[i].call].done = Append(@, i)]
    /\ UNCHANGED <<now, ticks, writers, origin, storeVars, pipeVars>>

\* The loop with results correlated by position: the next finished task's result
\* is taken as the result of the url submitted at the same position
YieldByPosition(c) ==
    /\ ~calls[c].returned
    /\ calls[c].done # <<>>
    /\ LET k == Len(calls[c].results) + 1
           mine == {i \in 1..Len(tasks) : tasks[i].call = c}
           at == CHOOSE i \in mine : Cardinality({j \in mine : j < i}) = k - 1
       IN  calls' = [calls EXCEPT
                       ![c].done = Tail(@),
                       ![c].results = Append(@, [TaskResult(tasks[Head(calls[c].done)])
                                                    EXCEPT !.url = tasks[at].asked])]
    /\ UNCHANGED <<now, ticks, writers, origin, storeVars, fetcher, tasks, okAt, pipeVars>>

\* `for result in asyncio.as_completed(tasks)`: the call takes the next finished
\* task's result, in completion order
Yield(c) ==
    /\ ~calls[c].returned
    /\ calls[c].done # <<>>
    /\ calls' = [calls EXCEPT
                    ![c].done = Tail(@),
                    ![c].results = Append(@, TaskResult(tasks[Head(calls[c].done)]))]
    /\ UNCHANGED <<now, ticks, writers, origin, storeVars, fetcher, tasks, okAt, pipeVars>>

\* The as_completed loop of call c has seen all its tasks: the call returns
Return(c) ==
    /\ ~calls[c].returned
    /\ Len(calls[c].results) = calls[c].total
    /\ calls' = [calls EXCEPT ![c].returned = TRUE]
    /\ UNCHANGED <<now, ticks, writers, origin, storeVars, fetcher, tasks, okAt, pipeVars>>

\* fetch_items_content's `results[url] = (content, error)`: one entry per url, the
\* last result taken for it, keys in order of first insertion
RECURSIVE DictKeys(_)
DictKeys(rs) ==
    IF rs = <<>> THEN <<>>
    ELSE LET front == DictKeys(SubSeq(rs, 1, Len(rs) - 1))
             u == rs[Len(rs)].url
         IN  IF \E n \in 1..Len(front) : front[n] = u THEN front ELSE Append(front, u)

DictValue(rs, u) ==
    rs[CHOOSE n \in 1..Len(rs) :
          rs[n].url = u /\ \A m \in (n + 1)..Len(rs) : rs[m].url # u]

----------------------------------------------------------------------------
(* main.py: the data the pipeline works on *)

\* Python truth of an optional string: None and "" are false
TruthyStr(o) == ~IsNone(o) /\ Val(o) # ""

RECURSIVE Rep(_, _)
Rep(c, n) ==
    IF n = 0 THEN ""
    ELSE LET half == Rep(c, n \div 2)
         IN  IF n % 2 = 0 THEN half \o half ELSE half \o half \o c

\* FeedItem(id=..., url=entry.link, ...): pydantic validates `url: HttpUrl` into a
\* url object, which is not a str
FeedItem(url, title, content_html, content_text) ==
    [id |-> url, url |-> url, url_type |-> "HttpUrl", title |-> title,
     content_html |-> content_html, content_text |-> content_text]

\* An item whose url attribute holds a plain str (assigned after construction, or
\* built without validation)
WithStrUrl(item) == [item EXCEPT !.url_type = "str"]

ThinI == FeedItem("i", "AI", None, Some("short"))
ThinI2 == FeedItem("i", "Second entry, same link", None, None)
ThinA == FeedItem("a", "", Some("<p>teaser</p>"), None)
FatJ == FeedItem("j", "Long read", None, Some(Rep("x", TextThreshold + 1)))
FatH == FeedItem("h", "Long page", Some(Rep("y", HtmlThreshold + 1)), None)

Parsed(items) == [raised |-> FALSE, items |-> items]
ParseRaised == [raised |-> TRUE, items |-> <<>>]

\* process_feed_entries(content, feed_config, ignore_before_time): what feedparser,
\* the date cutoff and the filters leave of a feed, or an exception.  A document
\* that is no feed (empty, JSON) has no entries.
ParseChoices(content) ==
    IF content = "X"
    THEN {ParseRaised, Parsed(<<ThinI>>), Parsed(<<ThinI, ThinI2>>), Parsed(<<FatJ, ThinA>>)}
    ELSE {Parsed(<<>>)}

\* The extraction results that can have been serialized
Dicts == {extract_main_content(b, "") : b \in ItemBodies} \cup {NullResult}

\* A decoded JSON value as the code uses it: its Python type, its truth value,
\* and for a dict what .get answers for the three keys
PyValue(type, truthy, get) == [type |-> type, truthy |-> truthy, get |-> get]

\* json.loads: the value a JSON text decodes to (null, an object, an array, a
\* number), None for JSONDecodeError
json_loads(str) ==
    IF str = "null" THEN Some(PyValue("NoneType", FALSE, NullResult))
    ELSE IF str = "{}" THEN Some(PyValue("dict", FALSE, NullResult))
    ELSE IF str = "[]" THEN Some(PyValue("list", FALSE, NullResult))
    ELSE IF str = "[1]" THEN Some(PyValue("list", TRUE, NullResult))
    ELSE IF str = "0" THEN Some(PyValue("int", FALSE, NullResult))
    ELSE IF str = "7" THEN Some(PyValue("int", TRUE, NullResult))
    ELSE IF \E d \in Dicts : json_dumps(d) = str
    THEN Some(PyValue("dict", TRUE, CHOOSE d \in Dicts : json_dumps(d) = str))
    ELSE None

\* The test with the text length left out
has_substantial_content_html_only(item) ==
    TruthyStr(item.content_html) /\ Len(Val(item.content_html)) > HtmlThreshold

\* has_substantial_content
has_substantial_content(item) ==
    \/ TruthyStr(item.content_html) /\ Len(Val(item.content_html)) > HtmlThreshold
    \/ TruthyStr(item.content_text) /\ Len(Val(item.content_text)) > TextThreshold

\* The update with a title replaced only by a strictly longer one
MergeIfLonger(item, content) ==
    [item EXCEPT
        !.content_html = IF TruthyStr(content.content_html) THEN content.content_html ELSE @,
        !.content_text = IF TruthyStr(content.content_text) THEN content.content_text ELSE @,
        !.title = IF TruthyStr(content.title) /\ Len(item.title) < ShortTitle
                         /\ Len(Val(content.title)) > Len(item.title)
                  THEN Val(content.title) ELSE @]

\* The update with the candidate's html and text assigned whatever they are
MergeOverwriteAlways(item, content) ==
    [item EXCEPT
        !.content_html = content.content_html,
        !.content_text = content.content_text,
        !.title = IF TruthyStr(content.title) /\ (item.title = "" \/ Len(item.title) < ShortTitle)
                  THEN Val(content.title) ELSE @]

\* "Update item with fulfilled content": non-empty html and text replace the
\* item's; a non-empty title replaces an empty or short one
Merge(item, content) ==
    [item EXCEPT
        !.content_html = IF TruthyStr(content.content_html) THEN content.content_html ELSE @,
        !.content_text = IF TruthyStr(content.content_text) THEN content.content_text ELSE @,
        !.title = IF TruthyStr(content.title) /\ (item.title = "" \/ Len(item.title) < ShortTitle)
                  THEN Val(content.title) ELSE @]

\* urls_to_fulfill: the urls of the items without substantial content, in order
RECURSIVE UrlsToFulfill(_)
UrlsToFulfill(items) ==
    IF items = <<>> THEN <<>>
    ELSE IF has_substantial_content(Head(items)) THEN UrlsToFulfill(Tail(items))
    ELSE <<Head(items).url>> \o UrlsToFulfill(Tail(items))

SeqSet(q) == {q[n] : n \in 1..Len(q)}

\* db.batch_get_content(urls_to_fulfill) binds every url as a parameter of the
\* SELECT; sqlite3 binds None, int, float, str and bytes, and raises for a url
\* object ("type ... is not supported")
BindRaises(items) ==
    \E n \in 1..Len(items) :
        ~has_substantial_content(items[n]) /\ items[n].url_type # "str"

\* url_to_item_map[item.url] = item: per url the last thin item carrying it
UrlToItemMap(items) ==
    [u \in SeqSet(UrlsToFulfill(items)) |->
        CHOOSE n \in 1..Len(items) :
            /\ items[n].url = u /\ ~has_substantial_content(items[n])
            /\ \A m \in (n + 1)..Len(items) :
                  ~(items[m].url = u /\ ~has_substantial_content(items[m]))]

\* cached_contents: the decoded values of the cached strings that are non-empty
\* and decode
CachedContents(cached_json_contents) ==
    LET hits == {u \in DOMAIN cached_json_contents :
                    /\ TruthyStr(cached_json_contents[u])
                    /\ ~IsNone(json_loads(Val(cached_json_contents[u])))}
    IN  [u \in hits |-> Val(json_loads(Val(cached_json_contents[u])))]

\* "Apply cached content to items", over the keys of cached_contents in order: a
\* falsy value is skipped, a dict is merged into the item its url is mapped to, and
\* content.get raises AttributeError for any other value, the items merged before
\* it staying merged
RECURSIVE ApplyCached(_, _, _, _)
ApplyCached(items, map, cached_contents, order) ==
    IF order = <<>> THEN [raised |-> FALSE, items |-> items]
    ELSE LET url == Head(order)
             content == cached_contents[url]
         IN  IF ~(url \in DOMAIN map /\ content.truthy)
             THEN ApplyCached(items, map, cached_contents, Tail(order))
             ELSE IF content.type # "dict"
             THEN [raised |-> TRUE, items |-> items]
             ELSE ApplyCached([items EXCEPT ![map[url]] = Merge(@, content.get)],
                              map, cached_contents, Tail(order))

\* The in-place updates of the mapped items from a dict url -> extraction result
ApplyContents(items, map, contents) ==
    [n \in 1..Len(items) |->
        IF \E u \in DOMAIN contents : u \in DOMAIN map /\ map[u] = n
        THEN Merge(items[n], contents[items[n].url])
        ELSE items[n]]

\* History of feed acquisition, one entry per url handled: where its content came
\* from, the clock at its lookup or its cache write (at), the content or the fetch
\* error, and what the parser made of it (po)
LogEntry(url, fetched, at, content, error, po) ==
    [url |-> url, fetched |-> fetched, at |-> at, content |-> content, error |-> error,
     po |-> po]

\* One turn of the first loop with the exception of the parser left uncaught: it
\* leaves the loop and process_feeds
CacheTurnAbortOnRaise(db, t, url, po) ==
    LET cached == get_content(db, t, url, DefaultTtl)
    IN  [got |-> cached,
         hit |-> TruthyStr(cached),
         items |-> IF TruthyStr(cached) THEN po.items ELSE <<>>,
         escaped |-> TruthyStr(cached) /\ po.raised]

\* One turn of the first loop of process_feeds over feed_config.urls:
\* `if cached := await db.get_content(url)`, the store reading the clock t.  A
\* truthy cached value is parsed (po is what the parser makes of it; an exception
\* is logged inside the loop and the url adds nothing), anything else is a miss.
\* got: what get_content returned; escaped: an exception leaves the loop.
CacheTurn(db, t, url, po) ==
    LET cached == get_content(db, t, url, DefaultTtl)
    IN  [got |-> cached,
         hit |-> TruthyStr(cached),
         items |-> IF TruthyStr(cached) THEN po.items ELSE <<>>,
         escaped |-> FALSE]

\* One turn of the cache writes of fulfill_items_content, the store reading the
\* clock t: `for url, (content, success) in content_results.items()` binds the
\* tuple's error to `success`.  A result with content and a truthy second element
\* is stored serialized; any other is stored with content None, the truth of the
\* second element as success, and content.get("error") or "Unknown error" as reason.
FulfillWrite(db, t, url, results) ==
    LET content == DictValue(results, url).item
        success == TruthyStr(DictValue(results, url).error)
    IN  IF ~IsNone(content) /\ success
        THEN set_content(db, t, url, Some(json_dumps(Val(content))), success, None)
        ELSE set_content(db, t, url, None, success,
                         IF ~IsNone(content) THEN None ELSE Some("Unknown error"))

\* No run of main() since the last call of process_feeds.  fetcher: the client of
\* the fetcher the run created ("none" before it has one); recipes: the number of
\* collections get_recipes() held in the run; outputs: the documents it wrote;
\* todo: the collections its loop has still to take; phase: "processing" while the
\* loop awaits process_feeds for a collection, "loop" between two of its turns.
NoMain == [state |-> "none", fetcher |-> "none", outputs |-> 0, recipes |-> 0,
           todo |-> <<>>, phase |-> "loop"]

\* process_feeds not running and not yet called.  After a call pf keeps its locals:
\* items is what it returned, results and prev_fail_count are what
\* fetch_items_content returned to its fulfillment and the fail counts it found.
\* raised: the call ended with an exception.  turn: the last turn of the loop over
\* the fetch results: the result, the clock at its cache write, the row of its url
\* at the time it was parsed (or skipped), and whether the parser raised.  log: the
\* urls handled so far.  lookups: per configured url looked up so far, the clock
\* and what get_content returned.  urls_to_fetch: the misses so far.  idx: the
\* position in the loop the call is in (the next url to look up, the next fetch
\* result to take, the number of cache writes fulfillment has made).
\* given: the items fulfill_items_content was called with, as they were then;
\* cached: its cached_contents; looked_up: the keys it asked the store for.
IdlePf == [pc |-> "idle", cfg |-> [urls |-> <<>>, fulfill |-> FALSE], items |-> <<>>,
           idx |-> 0, map |-> <<>>, results |-> <<>>, prev_fail_count |-> <<>>,
           raised |-> FALSE, turn |-> None, log |-> <<>>,
           given |-> <<>>, cached |-> <<>>, looked_up |-> {}, lookups |-> <<>>,
           urls_to_fetch |-> <<>>]

----------------------------------------------------------------------------
(* get_recipes(): the configured collections *)

FeedConfig(urls, fulfill) == [urls |-> urls, fulfill |-> fulfill]

RecipeChoices ==
    { <<>>,
      <<FeedConfig(<<"a">>, FALSE)>>,
      <<FeedConfig(<<"a", "b">>, FALSE), FeedConfig(<<"b">>, TRUE)>> }

----------------------------------------------------------------------------
NoOp == [op |-> "none"]

AllUrls == Keys \cup {"i", "j"}

Init ==
    /\ now = StartTicks
    /\ ticks = 0
    /\ feeds = <<>>
    /\ lastOp = NoOp
    /\ streak = [k \in AllUrls |-> 0]
    /\ fetcher = NoFetcher
    /\ tasks = <<>>
    /\ calls = <<>>
    /\ okAt = [k \in AllUrls |-> None]
    /\ pf = IdlePf
    /\ runNo = 0
    /\ mainRun = NoMain
    /\ writers = <<>>
    /\ origin = [k \in AllUrls |-> "none"]

\* The wall clock advances, between calls and during them: every call of the store
\* reads it anew (datetime.now), and a call awaits the network in between
Tick(d) ==
    /\ ticks < MaxTicks
    /\ now' = now + d
    /\ ticks' = ticks + 1
    /\ UNCHANGED <<writers, origin, storeVars, fetchVars, pipeVars>>

\* The number of failed writes in a row after a write to url
CountWrite(n, url, success) ==
    [n EXCEPT ![url] = IF success THEN 0 ELSE @ + 1]

\* A caller invokes Database.set_content
DbSet(url, content, success, error_reason) ==
    /\ (~success /\ url \in DOMAIN feeds) => feeds[url].continue_fail_count < MaxFailCount
    /\ feeds' = set_content(feeds, now, url, content, success, error_reason)
    /\ streak' = CountWrite(streak, url, success)
    /\ lastOp' = [op |-> "set", url |-> url, success |-> success,
                  content |-> IF success THEN content ELSE None,
                  error_reason |-> IF success THEN None ELSE error_reason,
                  prev |-> IF url \in DOMAIN feeds
                           THEN [content |-> feeds[url].content,
                                 continue_fail_count |-> feeds[url].continue_fail_count,
                                 error_reason |-> feeds[url].error_reason]
                           ELSE [content |-> None, continue_fail_count |-> 0,
                                 error_reason |-> None]]
    /\ UNCHANGED <<now, ticks, writers, origin, fetchVars, pipeVars>>

\* A caller invokes Database.get_content
DbGet(url, ttl) ==
    /\ lastOp' = [op |-> "get", url |-> url, ttl |-> ttl, at |-> now,
                  ret |-> get_content(feeds, now, url, ttl)]
    /\ UNCHANGED <<now, ticks, writers, origin, feeds, streak, fetchVars, pipeVars>>

\* A caller invokes Database.batch_get_content
DbBatchGet(urls, ttl) ==
    /\ lastOp' = [op |-> "batch_get", urls |-> urls, ttl |-> ttl, at |-> now,
                  ret |-> batch_get_content(feeds, now, urls, ttl)]
    /\ UNCHANGED <<now, ticks, writers, origin, feeds, streak, fetchVars, pipeVars>>

\* A caller invokes Database.cleanup; get_recipes() returns rs
DbCleanup(days, rs) ==
    /\ LET r == cleanup(feeds, now, days, rs)
       IN  /\ feeds' = r.feeds
           /\ streak' = [k \in AllUrls |-> IF k \in DOMAIN r.feeds THEN streak[k] ELSE 0]
           /\ lastOp' = [op |-> "cleanup", days |-> days, at |-> now, before |-> feeds,
                         known |-> RecipeUrls(rs), raised |-> r.raised,
                         deleted |-> r.deleted]
    /\ UNCHANGED <<now, ticks, writers, origin, fetchVars, pipeVars>>

NextStore ==
    \/ \E d \in Deltas : Tick(d)
    \/ \E url \in Keys, c \in {Some(x) : x \in StoreContents} \cup {None} :
          DbSet(url, c, TRUE, None)
    \/ \E url \in Keys, c \in {None, Some("X")}, r \in Reasons :
          DbSet(url, c, FALSE, Some(r))
    \/ \E url \in Keys, ttl \in TTLs : DbGet(url, ttl)
    \/ \E urls \in KeyLists, ttl \in TTLs : DbBatchGet(urls, ttl)
    \/ \E rs \in RecipeChoices : DbCleanup(DefaultDays, rs)

SpecStore == Init /\ [][NextStore]_vars

----------------------------------------------------------------------------
(* The extractor called directly *)

\* A caller invokes extract_main_content on a document that parses to page
Extract(page, url) ==
    /\ lastOp' = [op |-> "extract", page |-> page, url |-> url, raised |-> FALSE,
                  ret |-> ExtractFrom(page)]
    /\ UNCHANGED <<now, ticks, writers, origin, feeds, streak, fetchVars, pipeVars>>

NextExtract == \E page \in Pages, url \in AllUrls : Extract(page, url)

SpecExtract == Init /\ [][NextExtract]_vars

----------------------------------------------------------------------------
(* Concurrent writers: set_content calls whose awaits interleave (tasks of one *)
(* event loop, or several processes on one database file).  Each call reads   *)
(* the clock, opens its own connection, executes its one INSERT ... ON        *)
(* CONFLICT DO UPDATE statement, which opens a transaction and takes the      *)
(* database's write lock, and commits.                                        *)

SetCalls ==
    {[url |-> k, content |-> Some("X"), success |-> TRUE, error_reason |-> None] :
        k \in Keys}
    \cup {[url |-> k, content |-> None, success |-> FALSE, error_reason |-> Some(r)] :
            k \in Keys, r \in Reasons}

\* No exclusion between transactions
WriteLockIgnored(ws) == TRUE

\* SQLite admits one write transaction at a time: the statement of db.execute can
\* run when no other connection has executed its statement and not yet committed
WriteLockFree(ws) == \A j \in 1..Len(ws) : ws[j].pc # "commit"

\* now = int(datetime.now(UTC).timestamp()); aiosqlite.connect(self.db_path)
SetBegin(c) ==
    /\ Len(writers) < MaxWriters
    /\ writers' = Append(writers, [call |-> c, pc |-> "execute", at |-> now,
                                    row |-> None, seq |-> 0])
    /\ UNCHANGED <<now, ticks, origin, storeVars, fetchVars, pipeVars>>

\* await db.execute(...): the upsert runs on the committed table, inside the
\* transaction it opens
SetExecute(i) ==
    /\ writers[i].pc = "execute"
    /\ WriteLockFree(writers)
    /\ LET c == writers[i].call
       IN  writers' = [writers EXCEPT
                          ![i].pc = "commit",
                          ![i].row = Some(UpsertRow(feeds, writers[i].at, c.url, c.content,
                                                    c.success, c.error_reason))]
    /\ UNCHANGED <<now, ticks, origin, storeVars, fetchVars, pipeVars>>

\* await db.execute(...) while another connection holds the write lock beyond the
\* busy timeout: sqlite3.OperationalError (database is locked); nothing is written
SetLocked(i) ==
    /\ writers[i].pc = "execute"
    /\ ~WriteLockFree(writers)
    /\ writers' = [writers EXCEPT ![i].pc = "raised"]
    /\ UNCHANGED <<now, ticks, origin, storeVars, fetchVars, pipeVars>>

\* await db.commit(): the transaction's row becomes the table's
SetCommit(i) ==
    /\ writers[i].pc = "commit"
    /\ LET c == writers[i].call
       IN  /\ feeds' = [k \in DOMAIN feeds \cup {c.url} |->
                           IF k = c.url THEN Val(writers[i].row) ELSE feeds[k]]
           /\ streak' = CountWrite(streak, c.url, c.success)
    /\ writers' = [writers EXCEPT
                      ![i].pc = "done",
                      ![i].seq = 1 + Cardinality({j \in 1..Len(writers) :
                                                    writers[j].pc = "done"})]
    /\ UNCHANGED <<now, ticks, origin, lastOp, fetchVars, pipeVars>>

NextWriters ==
    \/ \E d \in Deltas : Tick(d)
    \/ \E c \in SetCalls : SetBegin(c)
    \/ \E i \in 1..Len(writers) : SetExecute(i)
    \/ \E i \in 1..Len(writers) : SetLocked(i)
    \/ \E i \in 1..Len(writers) : SetCommit(i)

SpecWriters == Init /\ [][NextWriters]_vars

----------------------------------------------------------------------------
(* The fetcher driven directly: calls of fetch_urls (a single url stands for *)
(* fetch_url) and fetch_items_content running concurrently on one fetcher.   *)

UrlLists == {<<"a">>, <<"a", "b">>, <<"b", "a", "b">>}

\* FeedFetcher(max_concurrent=mc): a caller makes itself a fetcher when it holds
\* no open one
NewFetcher(mc) ==
    /\ fetcher.client # "open"
    /\ fetcher' = FeedFetcher(mc)
    /\ UNCHANGED <<now, ticks, writers, origin, storeVars, tasks, calls, okAt, pipeVars>>

\* A caller awaits fetch_urls(urls) (kind "feed") or fetch_items_content(urls)
\* (kind "item")
StartCall(kind, urls) ==
    /\ fetcher.client = "open"
    /\ Len(tasks) + Len(urls) <= MaxTasks
    /\ calls' = Append(calls, NewCall(kind, urls))
    /\ tasks' = tasks \o NewTasks(Len(calls) + 1, kind, urls)
    /\ UNCHANGED <<now, ticks, writers, origin, storeVars, fetcher, okAt, pipeVars>>

NextFetcher ==
    \/ \E mc \in 1..MaxSlots : NewFetcher(mc)
    \/ \E kind \in {"feed", "item"}, urls \in UrlLists : StartCall(kind, urls)
    \/ \E i \in 1..Len(tasks) : Acquire(i)
    \/ \E i \in 1..Len(tasks) : \E resp \in Responses(tasks[i].kind) : Finish(i, resp)
    \/ \E c \in 1..Len(calls) : Yield(c)
    \/ \E c \in 1..Len(calls) : Return(c)

SpecFetcher == Init /\ [][NextFetcher]_vars

----------------------------------------------------------------------------
(* main.py: process_feeds, fulfill_items_content and main *)

Configs == {FeedConfig(<<"a">>, TRUE), FeedConfig(<<"a", "b">>, FALSE)}

\* The item lists callers pass to fulfill_items_content
ItemLists ==
    { <<WithStrUrl(ThinI)>>,
      <<WithStrUrl(ThinI), WithStrUrl(ThinI2)>>,
      <<WithStrUrl(FatJ), WithStrUrl(ThinA)>>,
      <<WithStrUrl(FatH), WithStrUrl(FatJ)>>,
      <<WithStrUrl(ThinI), WithStrUrl(ThinA)>>,
      <<ThinI>> }

\* The time the clock advances by at once: just under the ttl
RunGaps == {DefaultTtl * TicksPerSec - 1}

\* Where process_feeds goes once its items are complete
AfterFeeds(p) == [p EXCEPT !.pc = "fulfill", !.idx = 0]

\* The frame of process_feeds(fetcher, db, feed_name, cfg) at its first await:
\* the first cache lookup, or, with no url configured, the step to fulfillment
EnterProcessFeeds(cfg) ==
    IF cfg.urls = <<>> THEN AfterFeeds([IdlePf EXCEPT !.cfg = cfg])
    ELSE [IdlePf EXCEPT !.pc = "lookup", !.cfg = cfg, !.idx = 1]

\* A caller awaits process_feeds(fetcher, db, feed_name, cfg) itself
ProcessFeeds(cfg) ==
    /\ pf.pc = "idle"
    /\ mainRun.state # "running"
    /\ fetcher.client = "open"
    /\ runNo < MaxRuns
    /\ runNo' = runNo + 1
    /\ mainRun' = NoMain
    /\ pf' = EnterProcessFeeds(cfg)
    /\ UNCHANGED <<now, ticks, writers, origin, storeVars, fetchVars>>

\* process_feeds looks the next configured url up in the cache: one turn of its
\* first loop; after the last one the misses go to fetch_urls, or, with none,
\* the call goes on to fulfillment
PF_Lookup(po) ==
    /\ pf.pc = "lookup"
    /\ LET url == pf.cfg.urls[pf.idx]
           r == CacheTurn(feeds, now, url, po)
           last == pf.idx = Len(pf.cfg.urls)
           urls_to_fetch == IF r.hit THEN pf.urls_to_fetch
                            ELSE Append(pf.urls_to_fetch, url)
           p == [pf EXCEPT !.items = @ \o r.items,
                           !.log = IF r.hit
                                   THEN Append(@, LogEntry(url, FALSE, now, r.got, None, po))
                                   ELSE @,
                           !.lookups = Append(@, [url |-> url, at |-> now, got |-> r.got]),
                           !.urls_to_fetch = urls_to_fetch]
       IN  /\ po \in (IF r.hit THEN ParseChoices(Val(r.got)) ELSE {Parsed(<<>>)})
           /\ IF r.escaped
              THEN /\ pf' = [p EXCEPT !.pc = "idle", !.raised = TRUE]
                   /\ UNCHANGED <<tasks, calls>>
              ELSE IF ~last
              THEN /\ pf' = [p EXCEPT !.idx = @ + 1]
                   /\ UNCHANGED <<tasks, calls>>
              ELSE IF urls_to_fetch = <<>>
              THEN /\ pf' = AfterFeeds(p)
                   /\ UNCHANGED <<tasks, calls>>
              ELSE /\ pf' = [p EXCEPT !.pc = "fetch_urls", !.idx = 1]
                   /\ calls' = <<NewCall("feed", urls_to_fetch)>>
                   /\ tasks' = NewTasks(1, "feed", urls_to_fetch)
    /\ UNCHANGED <<now, ticks, writers, origin, storeVars, fetcher, okAt, runNo, mainRun>>

\* One turn of the loop with the parse ahead of the cache write and inside the same
\* try: an exception of the parser skips the write
ResultTurnParseFirst(db, t, res, po) ==
    LET parsed == TruthyStr(res.content)
        raised == parsed /\ po.raised
    IN  [feeds |-> IF raised THEN db
                   ELSE set_content(db, t, res.url, res.content, IsNone(res.error), res.error),
         seen |-> IF res.url \in DOMAIN db THEN Some(db[res.url]) ELSE None,
         raised |-> raised,
         items |-> IF parsed THEN po.items ELSE <<>>]

\* One turn of `for url, content, error in results`: db.set_content(url, content,
\* success=error is None, error_reason=error) first; then a falsy content is
\* skipped, any other is parsed (po is what process_feed_entries makes of it) and
\* an exception of the parser is logged.  seen is the row the store holds for the
\* url when the parser runs.
ResultTurn(db, t, res, po) ==
    LET written == set_content(db, t, res.url, res.content, IsNone(res.error), res.error)
        parsed == TruthyStr(res.content)
    IN  [feeds |-> written,
         seen |-> Some(written[res.url]),
         raised |-> parsed /\ po.raised,
         items |-> IF parsed THEN po.items ELSE <<>>]

\* process_feeds takes the next fetch result: one turn of the loop, and after the
\* last one the step to fulfillment
PF_Result(po) ==
    /\ pf.pc = "fetch_urls"
    /\ calls[1].returned
    /\ LET res == calls[1].results[pf.idx]
           last == pf.idx = Len(calls[1].results)
           r == ResultTurn(feeds, now, res, po)
           p == [pf EXCEPT !.items = pf.items \o r.items,
                           !.log = Append(@, LogEntry(res.url, TRUE, now, res.content,
                                                      res.error, po)),
                           !.turn = Some([url |-> res.url, at |-> now,
                                          content |-> res.content,
                                          error |-> res.error, raised |-> r.raised,
                                          seen |-> r.seen])]
       IN  /\ po \in (IF TruthyStr(res.content) THEN ParseChoices(Val(res.content))
                                                ELSE {Parsed(<<>>)})
           /\ feeds' = r.feeds
           /\ streak' = CountWrite(streak, res.url, IsNone(res.error))
           /\ origin' = [origin EXCEPT ![res.url] = "feed"]
           /\ pf' = IF last THEN AfterFeeds(p) ELSE [p EXCEPT !.idx = @ + 1]
           /\ tasks' = IF last THEN <<>> ELSE tasks
           /\ calls' = IF last THEN <<>> ELSE calls
    /\ UNCHANGED <<now, ticks, writers, lastOp, fetcher, okAt, runNo, mainRun>>

\* fulfill_items_content(fetcher, db, feed_name, items) up to its call of
\* fetch_items_content: the thin items' urls are looked up in the cache, the hits
\* that decode to a dict are merged into their items, and the urls without a decoded
\* value go to the fetcher.  With no thin item it returns at once; the lookup raises
\* for a url that is no str, the merge for a decoded value that is no dict.
FulfillFromCache(db, t, items) ==
    LET urls_to_fulfill == UrlsToFulfill(items)
        map == UrlToItemMap(items)
        cached_contents ==
            CachedContents(batch_get_content(db, t, urls_to_fulfill, DefaultTtl))
        applied == ApplyCached(items, map, cached_contents,
                               SelectSeq(urls_to_fulfill,
                                         LAMBDA u : u \in DOMAIN cached_contents))
    IN  IF items = <<>> \/ urls_to_fulfill = <<>>
        THEN [raised |-> FALSE, items |-> items, map |-> <<>>, cached |-> <<>>,
              looked_up |-> {}, urls_to_fetch |-> <<>>]
        ELSE IF BindRaises(items)
        THEN [raised |-> TRUE, items |-> items, map |-> <<>>, cached |-> <<>>,
              looked_up |-> {}, urls_to_fetch |-> <<>>]
        ELSE [raised |-> applied.raised,
              items |-> applied.items,
              map |-> map,
              cached |-> cached_contents,
              looked_up |-> DOMAIN batch_get_content(db, t, urls_to_fulfill, DefaultTtl),
              urls_to_fetch |->
                  IF applied.raised THEN <<>>
                  ELSE SelectSeq(urls_to_fulfill,
                                 LAMBDA u : u \notin DOMAIN cached_contents)]

\* The call of fulfill_items_content(items) in the frame p: it returns (or raises)
\* from the cache, or starts fetch_items_content
EnterFulfill(p, items) ==
    LET r == FulfillFromCache(feeds, now, items)
    IN  IF r.urls_to_fetch = <<>>
        THEN /\ pf' = [p EXCEPT !.pc = "idle", !.items = r.items, !.raised = r.raised,
                                !.map = r.map, !.given = items, !.cached = r.cached,
                                !.looked_up = r.looked_up]
             /\ UNCHANGED <<tasks, calls>>
        ELSE /\ pf' = [p EXCEPT !.pc = "fetch_items", !.items = r.items, !.map = r.map,
                                !.given = items, !.cached = r.cached,
                                !.looked_up = r.looked_up]
             /\ calls' = <<NewCall("item", r.urls_to_fetch)>>
             /\ tasks' = NewTasks(1, "item", r.urls_to_fetch)

\* `if feed_config.fulfill and items`: process_feeds calls fulfill_items_content
\* on the items it has parsed, or returns them
Fulfill ==
    /\ pf.pc = "fulfill"
    /\ IF pf.cfg.fulfill /\ pf.items # <<>>
       THEN EnterFulfill(pf, pf.items)
       ELSE /\ pf' = [pf EXCEPT !.pc = "idle"]
            /\ UNCHANGED <<tasks, calls>>
    /\ UNCHANGED <<now, ticks, writers, origin, storeVars, fetcher, okAt, runNo, mainRun>>

\* A caller awaits fulfill_items_content(fetcher, db, feed_name, items) itself
FulfillCall(items) ==
    /\ pf.pc = "idle"
    /\ mainRun.state # "running"
    /\ fetcher.client = "open"
    /\ runNo < MaxRuns
    /\ runNo' = runNo + 1
    /\ mainRun' = NoMain
    /\ EnterFulfill(IdlePf, items)
    /\ UNCHANGED <<now, ticks, writers, origin, storeVars, fetcher, okAt>>

\* fetch_items_content has returned and fulfill_items_content makes its next cache
\* write: one turn of `for url, (content, success) in content_results.items()`.
\* After the last one the items are updated and fulfill_items_content returns (and
\* process_feeds, if it made the call).
FF_Write ==
    /\ pf.pc = "fetch_items"
    /\ calls[1].returned
    /\ LET results == calls[1].results
           keys == DictKeys(results)
           url == keys[pf.idx + 1]
           last == pf.idx + 1 = Len(keys)
           fetched == {u \in SeqSet(keys) : ~IsNone(DictValue(results, u).item)}
           contents == [u \in fetched |-> Val(DictValue(results, u).item)]
           p == [pf EXCEPT !.idx = @ + 1,
                           !.prev_fail_count =
                               [u \in DOMAIN @ \cup {url} |->
                                   IF u # url THEN @[u]
                                   ELSE IF u \in DOMAIN feeds
                                   THEN feeds[u].continue_fail_count ELSE 0]]
       IN  /\ feeds' = FulfillWrite(feeds, now, url, results)
           /\ streak' = CountWrite(streak, url, TruthyStr(DictValue(results, url).error))
           /\ origin' = [origin EXCEPT ![url] = "item"]
           /\ pf' = IF last
                    THEN [p EXCEPT !.pc = "idle",
                                   !.items = ApplyContents(pf.items, pf.map, contents),
                                   !.results = results]
                    ELSE p
           /\ tasks' = IF last THEN <<>> ELSE tasks
           /\ calls' = IF last THEN <<>> ELSE calls
    /\ UNCHANGED <<now, ticks, writers, lastOp, fetcher, okAt, runNo, mainRun>>

\* main() up to its loop: db.init(), db.cleanup(), then FeedFetcher() and the
\* head of `for feed_name, feed_config in get_recipes().items()`.  get_recipes()
\* is called twice, inside cleanup (db.py:163), where it returns rs, and by the
\* loop (main.py:297), where it returns recipes: it hands out the module's dict,
\* which is read anew at each call.  An exception of cleanup ends the run before
\* the fetcher exists.  (A run that enters its loop is one that can finish within
\* MaxRuns calls of process_feeds.)
MainStart(rs, recipes) ==
    /\ pf.pc = "idle"
    /\ mainRun.state # "running"
    /\ LET r == cleanup(feeds, now, DefaultDays, rs)
       IN  /\ ~r.raised => runNo + Len(recipes) <= MaxRuns
           /\ feeds' = r.feeds
           /\ streak' = [k \in AllUrls |-> IF k \in DOMAIN r.feeds THEN streak[k] ELSE 0]
           /\ mainRun' = IF r.raised
                          THEN [NoMain EXCEPT !.state = "raised", !.recipes = Len(rs)]
                          ELSE [NoMain EXCEPT !.state = "running", !.fetcher = "open",
                                              !.recipes = Len(recipes),
                                              !.todo = recipes]
           /\ fetcher' = IF r.raised THEN fetcher
                         ELSE FeedFetcher(DefaultMaxConcurrent)
           /\ okAt' = [k \in AllUrls |->
                          IF k \in DOMAIN feeds \ DOMAIN r.feeds THEN None ELSE okAt[k]]
           /\ origin' = [k \in AllUrls |->
                            IF k \in DOMAIN feeds \ DOMAIN r.feeds THEN "none" ELSE origin[k]]
    /\ UNCHANGED <<now, ticks, writers, lastOp, tasks, calls, pf, runNo>>

\* The try block of main() with `await fetcher.close()` as a statement after the
\* loop instead of a finally clause: an exception passes it by
LeaveTrailingClose(run, exc) ==
    IF exc THEN [run EXCEPT !.state = "raised"]
    ELSE [run EXCEPT !.state = "completed", !.fetcher = "closed"]

\* The run leaves the try block of main(), its loop finished or (exc) an exception
\* on its way out: `finally: await fetcher.close()` closes the client either way
Leave(run, exc) ==
    [run EXCEPT !.state = IF exc THEN "raised" ELSE "completed",
                !.fetcher = "closed"]

\* The loop of main() takes its next collection and awaits process_feeds for it;
\* with none left the loop is over and the run leaves the try block
MainLoop ==
    /\ mainRun.state = "running"
    /\ mainRun.phase = "loop"
    /\ IF mainRun.todo = <<>>
       THEN /\ mainRun' = Leave(mainRun, FALSE)
            /\ fetcher' = [fetcher EXCEPT !.client = mainRun'.fetcher]
            /\ UNCHANGED <<pf, runNo>>
       ELSE /\ mainRun' = [mainRun EXCEPT !.phase = "processing"]
            /\ pf' = EnterProcessFeeds(Head(mainRun.todo))
            /\ runNo' = runNo + 1
            /\ UNCHANGED fetcher
    /\ UNCHANGED <<now, ticks, writers, origin, storeVars, tasks, calls, okAt>>

\* process_feeds has ended for the collection the loop of main() is at.  Its
\* exception leaves the try block.  Its items are made the Feed document and
\* written to outputs/<feed_name>.json (written: write_text has not raised; an
\* exception of it leaves the try block as well); then the loop goes on.
MainCollect(written) ==
    /\ mainRun.state = "running"
    /\ mainRun.phase = "processing"
    /\ pf.pc = "idle"
    /\ mainRun' = IF pf.raised \/ ~written
                  THEN Leave(mainRun, TRUE)
                  ELSE [mainRun EXCEPT !.outputs = @ + 1, !.todo = Tail(@),
                                       !.phase = "loop"]
    /\ fetcher' = [fetcher EXCEPT !.client = mainRun'.fetcher]
    /\ UNCHANGED <<now, ticks, writers, origin, storeVars, tasks, calls, okAt, pf, runNo>>

\* What the network answers to the requests of the pipeline: a response, with
\* every body and every status
PipelineResponses(kind) ==
    {resp \in Responses(kind) : resp.exc = NoException}

Next ==
    \/ \E d \in RunGaps : Tick(d)
    \/ NewFetcher(MaxSlots)
    \/ \E cfg \in Configs : ProcessFeeds(cfg)
    \/ \E po \in UNION {ParseChoices(c) : c \in Contents} : PF_Lookup(po)
    \/ \E i \in 1..Len(tasks) : Acquire(i)
    \/ \E i \in 1..Len(tasks) : \E resp \in PipelineResponses(tasks[i].kind) : Finish(i, resp)
    \/ \E c \in 1..Len(calls) : Yield(c)
    \/ \E c \in 1..Len(calls) : Return(c)
    \/ \E po \in UNION {ParseChoices(c) : c \in Contents} : PF_Result(po)
    \/ Fulfill
    \/ \E items \in ItemLists : FulfillCall(items)
    \/ FF_Write
    \/ \E rs \in RecipeChoices : MainStart(rs, rs)
    \/ MainLoop

Spec == Init /\ [][Next]_vars

----------------------------------------------------------------------------
(* main() run whole, again and again, the collections its loop finds drawn      *)
(* apart from the ones cleanup found                                            *)

NextMain ==
    \/ \E d \in RunGaps : Tick(d)
    \/ \E rs \in RecipeChoices, recipes \in RecipeChoices : MainStart(rs, recipes)
    \/ MainLoop
    \/ \E po \in UNION {ParseChoices(c) : c \in Contents} : PF_Lookup(po)
    \/ \E i \in 1..Len(tasks) : Acquire(i)
    \/ \E i \in 1..Len(tasks) : \E resp \in PipelineResponses(tasks[i].kind) : Finish(i, resp)
    \/ \E c \in 1..Len(calls) : Yield(c)
    \/ \E c \in 1..Len(calls) : Return(c)
    \/ \E po \in UNION {ParseChoices(c) : c \in Contents} : PF_Result(po)
    \/ Fulfill
    \/ \E written \in BOOLEAN : MainCollect(written)

SpecMain == Init /\ [][NextMain]_vars

----------------------------------------------------------------------------
(* Properties of the cache store *)

\* Every ttl a caller may pass: the ones the calls above use and one longer than
\* any age a row reaches
AnyTtls == TTLs \cup {4 * RetentionSecs}

\* now - updated_at < ttl, on the wall clock
Fresh(row, t, ttl) == t - row.updated_at * TicksPerSec < ttl * TicksPerSec

\* C4: after set(k, _, success=false, reason), get(k, ttl) returns nothing for every
\* ttl, however recent updated_at is and whatever k held before; a successful set
\* that follows failures leaves fail_count 0 and error_reason null, and get returns
\* the new content while it is fresh.
C4_FailedSetHidesContent ==
    lastOp.op = "set" =>
        LET k == lastOp.url
        IN  /\ k \in DOMAIN feeds
            /\ ~lastOp.success =>
                   \A ttl \in AnyTtls : get_content(feeds, now, k, ttl) = None
            /\ (lastOp.success /\ lastOp.prev.continue_fail_count > 0) =>
                   /\ feeds[k].continue_fail_count = 0
                   /\ feeds[k].error_reason = None
                   /\ \A ttl \in AnyTtls :
                          Fresh(feeds[k], now, ttl) =>
                              get_content(feeds, now, k, ttl) = lastOp.content

\* C4 witness: a failed set has just overwritten a row that held content, and the
\* row's updated_at is the current second
C4_Witness ==
    /\ lastOp.op = "set"
    /\ ~lastOp.success
    /\ ~IsNone(lastOp.prev.content)
    /\ feeds[lastOp.url].updated_at = Timestamp(now)

\* C5: after set(k, c, success=true), with no write in between, get(k, ttl) returns
\* c as long as now - updated_at < ttl and nothing as soon as now - updated_at >= ttl.
C5_GetFollowsTtl ==
    /\ \A k \in DOMAIN feeds : \A ttl \in AnyTtls :
          ~IsNone(feeds[k].content) =>
              get_content(feeds, now, k, ttl) =
                  IF Fresh(feeds[k], now, ttl) THEN feeds[k].content ELSE None
    /\ (lastOp.op = "get" /\ lastOp.url \in DOMAIN feeds
            /\ ~IsNone(feeds[lastOp.url].content)) =>
          lastOp.ret = IF Fresh(feeds[lastOp.url], lastOp.at, lastOp.ttl)
                       THEN feeds[lastOp.url].content
                       ELSE None

\* C5 witness: get with the default ttl misses a successfully written row exactly
\* ttl seconds after its updated_at
C5_Witness ==
    /\ lastOp.op = "get"
    /\ lastOp.ttl = DefaultTtl
    /\ lastOp.url \in DOMAIN feeds
    /\ ~IsNone(feeds[lastOp.url].content)
    /\ lastOp.at - feeds[lastOp.url].updated_at * TicksPerSec = DefaultTtl * TicksPerSec
    /\ lastOp.ret = None

\* C7: fail_count is the number of failed sets since the last success; after a
\* failed set error_reason is that call's reason and content is null; a success
\* resets the count to 0.
C7_FailCountIsStreak ==
    /\ \A k \in AllUrls :
          IF k \in DOMAIN feeds
          THEN feeds[k].continue_fail_count = streak[k]
          ELSE streak[k] = 0
    /\ lastOp.op = "set" =>
          IF lastOp.success
          THEN feeds[lastOp.url].continue_fail_count = 0
          ELSE /\ feeds[lastOp.url].continue_fail_count
                      = lastOp.prev.continue_fail_count + 1
               /\ feeds[lastOp.url].error_reason = lastOp.error_reason
               /\ IsNone(feeds[lastOp.url].content)

\* C7 witness: the third failure in a row, reason "http 500" after "timeout"
C7_Witness ==
    /\ lastOp.op = "set"
    /\ ~lastOp.success
    /\ streak[lastOp.url] = 3
    /\ feeds[lastOp.url].continue_fail_count = 3
    /\ lastOp.prev.error_reason = Some("timeout")
    /\ feeds[lastOp.url].error_reason = Some("http 500")
    /\ IsNone(feeds[lastOp.url].content)

\* The rows cleanup(retention, known_keys) is specified to delete
ToDelete(db, t, days, known) ==
    {k \in DOMAIN db :
        \/ db[k].updated_at < Cutoff(t, days * 86400) /\ db[k].continue_fail_count = 0
        \/ k \notin known}

\* C8: cleanup(retention, known_keys) deletes exactly the rows for which
\* (updated_at is older than retention AND fail_count == 0) OR key not in
\* known_keys, and leaves every other row untouched.
C8_CleanupDeletesExactly ==
    lastOp.op = "cleanup" =>
        feeds = Restrict(lastOp.before,
                         DOMAIN lastOp.before
                             \ ToDelete(lastOp.before, lastOp.at, lastOp.days, lastOp.known))

----------------------------------------------------------------------------
(* Properties of the fetcher *)

InFlight == {i \in 1..Len(tasks) : tasks[i].st = "InFlight"}
TasksOf(c) == {i \in 1..Len(tasks) : tasks[i].call = c}

\* C9: at every moment the number of requests in flight on one fetcher is at most
\* max_concurrent, over all running fetch_urls / fetch_items_content calls that
\* share the fetcher.
C9_AtMostMaxConcurrent ==
    fetcher.client # "none" => Cardinality(InFlight) <= fetcher.max_concurrent

\* C9 witness: max_concurrent = 2, two requests in flight, one of each kind, and a
\* third one waiting for a slot
C9_Witness ==
    /\ fetcher.max_concurrent = 2
    /\ Cardinality(InFlight) = 2
    /\ \E i, j \in InFlight : tasks[i].kind = "feed" /\ tasks[j].kind = "item"
    /\ \E i \in 1..Len(tasks) : tasks[i].st = "Pending"

\* The slots and results in a state: a slot is held exactly by the requests in
\* flight; a result handed to a call belongs to a finished request; a returned call
\* has a result for every request and none of them pending or in flight; with every
\* call returned all slots are free
C10_Slots ==
    /\ \A i \in 1..Len(tasks) : tasks[i].st \in {"Pending", "InFlight", "Success", "Failed"}
    /\ fetcher.client # "none" =>
          fetcher.semaphore = fetcher.max_concurrent - Cardinality(InFlight)
    /\ \A c \in 1..Len(calls) :
          /\ \A n \in 1..Len(calls[c].done) :
                tasks[calls[c].done[n]].st \in {"Success", "Failed"}
          /\ Len(calls[c].done) + Len(calls[c].results)
                = Cardinality({i \in TasksOf(c) : tasks[i].st \in {"Success", "Failed"}})
          /\ calls[c].returned =>
                /\ Len(calls[c].results) = calls[c].total
                /\ \A i \in TasksOf(c) : tasks[i].st \in {"Success", "Failed"}
    /\ (calls # <<>> /\ \A c \in 1..Len(calls) : calls[c].returned) =>
          fetcher.semaphore = fetcher.max_concurrent

\* The steps of one request: Pending -> InFlight taking a free slot, InFlight ->
\* Success or Failed giving it back, nothing else
C10_Step ==
    \A i \in 1..Len(tasks) :
        tasks'[i].st # tasks[i].st =>
            \/ /\ tasks[i].st = "Pending" /\ tasks'[i].st = "InFlight"
               /\ fetcher.semaphore > 0
               /\ fetcher'.semaphore = fetcher.semaphore - 1
            \/ /\ tasks[i].st = "InFlight" /\ tasks'[i].st \in {"Success", "Failed"}
               /\ fetcher'.semaphore = fetcher.semaphore + 1

\* C10: each request goes Pending -> InFlight -> Success or Failed, enters InFlight
\* only after acquiring one of the max_concurrent slots and releases it on success
\* and failure alike before its result is handed on; once a call has returned, all
\* its requests have run, and with no call running all slots are free.
C10_RequestLifecycle == []C10_Slots /\ [][C10_Step]_vars

\* C10 witness: with two slots, a call of three requests has returned, one of its
\* requests failed and one succeeded, and every slot is free again
C10_Witness ==
    /\ fetcher.max_concurrent = 2
    /\ fetcher.semaphore = 2
    /\ \E c \in 1..Len(calls) :
          /\ calls[c].returned
          /\ calls[c].total = 3
          /\ \E i, j \in TasksOf(c) : tasks[i].st = "Failed" /\ tasks[j].st = "Success"

----------------------------------------------------------------------------
(* Properties of the pipeline *)

\* A request that has been sent
Sent == {i \in 1..Len(tasks) : tasks[i].st # "Pending"}

\* Request i was sent while the row written for an earlier successful request of
\* the same url was inside the ttl window: now - updated_at < ttl
SentInsideWindow(i) ==
    /\ ~IsNone(tasks[i].prior_ok)
    /\ tasks[i].sent_at - Timestamp(Val(tasks[i].prior_ok).at) * TicksPerSec
           < DefaultTtl * TicksPerSec

\* C1: in content fulfillment the cache write for every item url sent to the
\* fetcher follows the rule of feed acquisition: after a successful fetch and
\* extraction the row holds the serialized extraction result, fail_count 0 and
\* error_reason null; after a failed fetch the row has content null, fail_count one
\* higher than before and the fetch error as error_reason.
C1_FulfillmentWriteRule ==
    (pf.pc = "idle" /\ pf.results # <<>> /\ mainRun.state = "none") =>
        \A u \in SeqSet(DictKeys(pf.results)) :
            LET r == DictValue(pf.results, u)
            IN  /\ u \in DOMAIN feeds
                /\ IF ~IsNone(r.item)
                   THEN /\ feeds[u].content = Some(json_dumps(Val(r.item)))
                        /\ feeds[u].continue_fail_count = 0
                        /\ feeds[u].error_reason = None
                   ELSE /\ feeds[u].content = None
                        /\ feeds[u].continue_fail_count = pf.prev_fail_count[u] + 1
                        /\ feeds[u].error_reason = r.error

\* C2: at most one fetch per url per ttl window: once a url has been fetched
\* successfully, no request for it is sent while now - updated_at < ttl for its
\* row, in the same batch, in another call or for another recipe.
C2_AtMostOneFetchPerWindow ==
    \A i \in Sent : ~SentInsideWindow(i)

\* C3: an item url whose fulfillment result was fetched and cached in one run is a
\* cache hit in a later run that starts within the ttl: it is not sent to the
\* fetcher.
C3_FulfilledUrlIsCacheHit ==
    \A i \in Sent :
        (/\ tasks[i].kind = "item"
         /\ ~IsNone(tasks[i].prior_ok)
         /\ Val(tasks[i].prior_ok).kind = "item"
         /\ Val(tasks[i].prior_ok).run < runNo) => ~SentInsideWindow(i)

\* C6: in every reachable state of the store, after any sequence of sets, from feed
\* acquisition and from fulfillment, and of cleanups, every row with content # null
\* has fail_count 0 and error_reason null.
C6_ContentImpliesNoFailure ==
    \A k \in DOMAIN feeds :
        ~IsNone(feeds[k].content) =>
            feeds[k].continue_fail_count = 0 /\ feeds[k].error_reason = None

\* C6 witness: feed acquisition has written content for "a" in one call and
\* fulfillment has written the row of item url "i" in another
C6_Witness ==
    /\ "a" \in DOMAIN feeds
    /\ feeds["a"].content = Some("X")
    /\ ~IsNone(okAt["a"]) /\ Val(okAt["a"]).kind = "feed"
    /\ "i" \in DOMAIN feeds
    /\ ~IsNone(okAt["i"]) /\ Val(okAt["i"]).kind = "item"
    /\ pf.pc = "idle"
    /\ pf.results # <<>>

----------------------------------------------------------------------------
(* Properties of one request *)

\* The requests of fetch_url that have ended
EndedFeedRequests == {i \in 1..Len(tasks) : tasks[i].kind = "feed" /\ ~IsNone(tasks[i].resp)}

\* C11: fetch_one never raises past its boundary: for every url and every outcome
\* (2xx, non-2xx status, transport error, timeout, redirect limit) it returns a
\* result carrying that url in which exactly one of content and error is non-null:
\* content on 2xx, error otherwise.
C11_FetchOneAlwaysReturns ==
    \A i \in EndedFeedRequests :
        LET resp == Val(tasks[i].resp)
            on2xx == resp.exc = NoException /\ resp.status \in 200..299
        IN  /\ tasks[i].st \in {"Success", "Failed"}
            /\ tasks[i].url = tasks[i].asked
            /\ IsNone(tasks[i].content) # IsNone(tasks[i].error)
            /\ on2xx => tasks[i].content = Some(resp.body)
            /\ ~on2xx => ~IsNone(tasks[i].error)

\* C11 witness: three requests of fetch_url have ended, one with 200 and an empty
\* body, one with status 404 and one over the redirect limit
C11_Witness ==
    \E i, j, k \in EndedFeedRequests :
        /\ Val(tasks[i].resp).status = 200 /\ tasks[i].content = Some("")
        /\ Val(tasks[j].resp).status = 404 /\ tasks[j].st = "Failed"
        /\ Val(tasks[k].resp).exc.type = "TooManyRedirects" /\ tasks[k].st = "Failed"

----------------------------------------------------------------------------
(* Properties of feed acquisition *)

\* C12: in feed acquisition every fetch result, success or failure, is written to
\* the cache store before it is parsed: when the parser runs, and so when it
\* raises, the row of the url already holds the fetched content with fail_count 0;
\* a failed fetch is written as a failure.
C12_WrittenBeforeParsed ==
    ~IsNone(pf.turn) =>
        LET turn == Val(pf.turn)
        IN  /\ ~IsNone(turn.seen)
            /\ IF IsNone(turn.error)
               THEN /\ Val(turn.seen).content = turn.content
                    /\ Val(turn.seen).continue_fail_count = 0
                    /\ Val(turn.seen).error_reason = None
               ELSE /\ Val(turn.seen).content = None
                    /\ Val(turn.seen).continue_fail_count > 0
                    /\ Val(turn.seen).error_reason = turn.error
            /\ (turn.raised /\ pf.pc # "idle") =>
                   /\ turn.url \in DOMAIN feeds
                   /\ feeds[turn.url].content = turn.content
                   /\ feeds[turn.url].continue_fail_count = 0

\* C12 witness: the parser has raised on the freshly fetched content "X" of a url
\* whose row counted failures before, and the row holds "X" with fail_count 0
C12_Witness ==
    /\ ~IsNone(pf.turn)
    /\ Val(pf.turn).raised
    /\ Val(pf.turn).content = Some("X")
    /\ pf.pc # "idle"
    /\ feeds[Val(pf.turn).url].content = Some("X")
    /\ feeds[Val(pf.turn).url].continue_fail_count = 0
    /\ feeds[Val(pf.turn).url].created_at < feeds[Val(pf.turn).url].updated_at

\* The items a handled url adds to the result: what the parser returned for a
\* non-empty content, nothing after a fetch failure, an empty content or an
\* exception of the parser
Contribution(e) ==
    IF TruthyStr(e.content) /\ ~e.po.raised THEN e.po.items ELSE <<>>

RECURSIVE Contributions(_)
Contributions(log) ==
    IF log = <<>> THEN <<>> ELSE Contribution(Head(log)) \o Contributions(Tail(log))

\* A url handled without adding items: its fetch failed or the parser raised
Dropped(e) == ~IsNone(e.error) \/ (TruthyStr(e.content) /\ e.po.raised)

\* C13: per-url failures are isolated in feed acquisition: a fetch failure or a
\* parse exception for one feed url, cached or freshly fetched, adds no items for
\* that url and never aborts the batch: the items of every other url are in the
\* result, and every fetched url gets its cache write.
C13_PerUrlFailuresIsolated ==
    (pf.cfg.urls # <<>> /\ (pf.pc # "idle" \/ ~pf.cfg.fulfill)) =>
        /\ pf.items = Contributions(pf.log)
        /\ pf.pc \in {"fulfill", "idle"} =>
               /\ Len(pf.log) = Len(pf.cfg.urls)
               /\ {pf.log[n].url : n \in 1..Len(pf.log)} = SeqSet(pf.cfg.urls)
        /\ pf.pc = "fulfill" =>
               \A n \in 1..Len(pf.log) :
                   pf.log[n].fetched =>
                       /\ pf.log[n].url \in DOMAIN feeds
                       /\ feeds[pf.log[n].url].updated_at = Timestamp(pf.log[n].at)
                       /\ feeds[pf.log[n].url].content = pf.log[n].content
                       /\ feeds[pf.log[n].url].error_reason = pf.log[n].error

\* C13 witness: of two urls the one handled first was dropped (its fetch failed or
\* its content did not parse) and the other one's items are the result
C13_Witness ==
    /\ pf.pc = "fulfill"
    /\ Len(pf.log) = 2
    /\ Dropped(pf.log[1])
    /\ ~Dropped(pf.log[2])
    /\ pf.log[2].fetched
    /\ pf.items # <<>>
    /\ pf.items = pf.log[2].po.items

----------------------------------------------------------------------------
(* Properties of fulfillment *)

\* fulfill_items_content has returned normally from a call with items
Fulfilled == pf.pc = "idle" /\ pf.given # <<>> /\ ~pf.raised

\* The candidates merged into the n-th item given: the cached extraction result of
\* its url, or the freshly fetched one
Candidates(n) ==
    LET u == pf.given[n].url
        mapped == u \in DOMAIN pf.map /\ pf.map[u] = n
        fresh == {x \in 1..Len(pf.results) : pf.results[x].url = u}
    IN  {pf.cached[v].get : v \in {w \in DOMAIN pf.cached : mapped /\ w = u}}
        \cup {Val(DictValue(pf.results, u).item) :
                 x \in {y \in fresh : mapped /\ ~IsNone(DictValue(pf.results, u).item)}}

\* C14 as stated: during fulfillment an item's title is replaced by the candidate
\* title only if the existing title is shorter than the short-title threshold (10
\* characters) and the candidate title is strictly longer than the existing one; in
\* every other case the title is unchanged.
C14_TitleOnlyIfStrictlyLonger ==
    Fulfilled =>
        \A n \in 1..Len(pf.given) :
            pf.items[n].title # pf.given[n].title =>
                \E c \in Candidates(n) :
                    /\ pf.items[n].title = Val(c.title)
                    /\ Len(pf.given[n].title) < ShortTitle
                    /\ Len(Val(c.title)) > Len(pf.given[n].title)

\* C14 amended: an item's title is replaced by the candidate title only if the
\* existing title is shorter than 10 characters and the candidate title is
\* non-empty, whatever its length; the item its url is mapped to gets the candidate
\* title in exactly that case; in every other case the title is unchanged.  This
\* holds for candidates merged from the cache and from a fresh fetch.
C14_TitleIfShort ==
    Fulfilled =>
        \A n \in 1..Len(pf.given) :
            LET old == pf.given[n].title
                replacing == {c \in Candidates(n) : TruthyStr(c.title) /\ Len(old) < ShortTitle}
            IN  IF replacing = {}
                THEN pf.items[n].title = old
                ELSE \A c \in replacing : pf.items[n].title = Val(c.title)

\* C14 witness: the title "AI" has been replaced by the freshly fetched title "Go",
\* which is not longer, and in another call an empty title by a title from the cache
C14_Witness ==
    /\ Fulfilled
    /\ \E n \in 1..Len(pf.given) :
          \/ /\ pf.given[n].title = "AI" /\ pf.items[n].title = "Go"
             /\ pf.results # <<>> /\ pf.cached = <<>>
          \/ /\ pf.given[n].title = "" /\ pf.items[n].title = "Go"
             /\ pf.given[n].url \in DOMAIN pf.cached

\* C15: during fulfillment an item's content_html (and, independently, its
\* content_text) is overwritten only when the candidate value is non-empty; a null
\* or empty candidate, an all-null extraction result and a failed fetch leave the
\* item's existing value unchanged.
C15_ContentOnlyIfNonEmpty ==
    Fulfilled =>
        \A n \in 1..Len(pf.given) :
            LET html == {c \in Candidates(n) : TruthyStr(c.content_html)}
                text == {c \in Candidates(n) : TruthyStr(c.content_text)}
            IN  /\ IF html = {}
                   THEN pf.items[n].content_html = pf.given[n].content_html
                   ELSE \A c \in html : pf.items[n].content_html = c.content_html
                /\ IF text = {}
                   THEN pf.items[n].content_text = pf.given[n].content_text
                   ELSE \A c \in text : pf.items[n].content_text = c.content_text

\* C15 witness: an item holding a teaser was merged with an all-null extraction
\* result and kept its teaser
C15_Witness ==
    /\ Fulfilled
    /\ \E n \in 1..Len(pf.given) :
          /\ TruthyStr(pf.given[n].content_html)
          /\ NullResult \in Candidates(n)
          /\ pf.items[n].content_html = pf.given[n].content_html

\* C15 witness of the other cases: a failed fetch left the item as it was, and in
\* the same call or another a non-empty candidate text replaced the item's
C15_WitnessFailedFetch ==
    /\ Fulfilled
    /\ \E n \in 1..Len(pf.given) :
          /\ \E x \in 1..Len(pf.results) :
                pf.results[x].url = pf.given[n].url /\ ~IsNone(pf.results[x].error)
          /\ TruthyStr(pf.given[n].content_text)
          /\ pf.items[n] = pf.given[n]

\* An item holding substantial content, in the words of the claim
Substantial(item) ==
    \/ TruthyStr(item.content_html) /\ Len(Val(item.content_html)) > HtmlThreshold
    \/ TruthyStr(item.content_text) /\ Len(Val(item.content_text)) > TextThreshold

\* The urls of the items given that hold no substantial content
ThinUrls == {pf.given[n].url : n \in {k \in 1..Len(pf.given) : ~Substantial(pf.given[k])}}

\* C16: an item that already holds substantial content (html longer than 500
\* characters or text longer than 300) passes through fulfillment unchanged, and its
\* url is neither looked up in the cache nor fetched on its behalf: every key asked
\* of the store and every url fetched is the url of an item without substantial
\* content.
C16_SubstantialPassThrough ==
    pf.given # <<>> =>
        /\ \A n \in 1..Len(pf.given) :
              Substantial(pf.given[n]) => pf.items[n] = pf.given[n]
        /\ pf.looked_up \subseteq ThinUrls
        /\ pf.pc = "fetch_items" =>
              \A i \in 1..Len(tasks) : tasks[i].url \in ThinUrls
        /\ \A x \in 1..Len(pf.results) : pf.results[x].url \in ThinUrls

\* C16 witness: a call given a substantial item and a thin one has returned; the
\* thin item's url was looked up and fetched and the item was updated
C16_Witness ==
    /\ Fulfilled
    /\ \E n, k \in 1..Len(pf.given) :
          /\ Substantial(pf.given[n])
          /\ ~Substantial(pf.given[k])
          /\ pf.given[k].url \in pf.looked_up
          /\ pf.results # <<>>
          /\ pf.items[k] # pf.given[k]

\* A call given only substantial items has returned without a lookup or a fetch
C16_WitnessNothingToFulfill ==
    /\ Fulfilled
    /\ \A n \in 1..Len(pf.given) : Substantial(pf.given[n])
    /\ pf.looked_up = {} /\ pf.results = <<>>

----------------------------------------------------------------------------
(* Properties of the store, continued *)

\* C17: batch_get(keys, ttl) has the semantics of get applied key by key on the
\* same store state: every requested key appears in the result, mapped to the
\* content get(key, ttl) returns, and to no value when get returns none (missing
\* row, expired row, row with null content).
C17_BatchGetIsGetPerKey ==
    lastOp.op = "batch_get" =>
        /\ DOMAIN lastOp.ret = SeqSet(lastOp.urls)
        /\ \A k \in SeqSet(lastOp.urls) :
              lastOp.ret[k] = get_content(feeds, lastOp.at, k, lastOp.ttl)

\* C17 witness: one batch_get of three keys, one of them twice, returned a hit for
\* a fresh row and no value for a row that is expired or holds null content
C17_Witness ==
    /\ lastOp.op = "batch_get"
    /\ lastOp.urls = <<"b", "a", "b">>
    /\ {"a", "b"} \subseteq DOMAIN feeds
    /\ \E k \in {"a", "b"} : ~IsNone(lastOp.ret[k])
    /\ \E k \in {"a", "b"} : IsNone(lastOp.ret[k])

\* The set_content calls that have committed, and those that went to key k
Committed == {i \in 1..Len(writers) : writers[i].pc = "done"}
CommittedTo(k) == {i \in Committed : writers[i].call.url = k}

\* The table after running the calls of order one after another on db, each
\* with the clock value it read
RECURSIVE RunInOrder(_, _)
RunInOrder(db, order) ==
    IF order = <<>> THEN db
    ELSE LET w == writers[Head(order)]
         IN  RunInOrder(set_content(db, w.at, w.call.url, w.call.content,
                                    w.call.success, w.call.error_reason),
                        Tail(order))

\* The orders in which the committed calls can be run one after another
Orders ==
    {o \in [1..Cardinality(Committed) -> Committed] :
        \A x, y \in DOMAIN o : x # y => o[x] # o[y]}

\* C18: set is one atomic upsert, not a read-then-write: for every interleaving
\* of concurrent set calls on one store, m failed sets to one key with no success
\* among them raise the key's fail_count by exactly m (here from no row, so to m),
\* the count is the number of failed sets committed since the last committed
\* success, and the table equals the result of running the same calls in some
\* sequential order.
C18_AtomicUpsert ==
    /\ \A k \in Keys :
          (CommittedTo(k) # {} /\ \A i \in CommittedTo(k) : ~writers[i].call.success) =>
              feeds[k].continue_fail_count = Cardinality(CommittedTo(k))
    /\ \A k \in DOMAIN feeds : feeds[k].continue_fail_count = streak[k]
    /\ \E o \in Orders : feeds = RunInOrder(<<>>, o)

\* C18 witness: three failed sets to one key have all committed, one of them
\* begun after another and committed before it, and the count is three
C18_Witness ==
    /\ Len(writers) = MaxWriters
    /\ \A i \in 1..Len(writers) :
          /\ writers[i].pc = "done"
          /\ writers[i].call.url = "a"
          /\ ~writers[i].call.success
    /\ \E i, j \in 1..Len(writers) : i < j /\ writers[i].seq > writers[j].seq
    /\ feeds["a"].continue_fail_count = MaxWriters

\* The step is one of fulfill_items_content's cache writes
WriteStep == pf.pc = "fetch_items" /\ (pf'.pc = "idle" \/ pf'.idx = pf.idx + 1)

\* The urls whose fetch result the step writes to the store: the result taken by
\* one turn of process_feeds' loop, or by one turn of fulfill_items_content's
WrittenInStep ==
    {pf'.log[n].url : n \in {x \in 1..Len(pf'.log) : x > Len(pf.log) /\ pf'.log[x].fetched}}
    \cup {DictKeys(calls[c].results)[pf.idx + 1] : c \in {x \in 1..Len(calls) : WriteStep}}

\* The step is the cleanup at the start of main()
CleanupStep == mainRun'.state = "running" /\ mainRun.state # "running"

\* C19: previously successful fetches are not lost on failures of others: the set
\* for one url's fetch result, in particular the failure write of a failed fetch,
\* leaves the row of every other key unchanged, so every other url that had valid
\* cached content still returns it from get within its ttl.
C19_OtherRowsUnchanged ==
    [][ ~CleanupStep =>
           \A k \in DOMAIN feeds \ WrittenInStep :
               /\ k \in DOMAIN feeds'
               /\ feeds'[k] = feeds[k]
               /\ get_content(feeds', now', k, DefaultTtl)
                     = get_content(feeds, now', k, DefaultTtl) ]_vars

\* C19 witness: in a run over two urls the first was served from the cache, the
\* second was fetched and failed, and get still returns the first one's content
C19_Witness ==
    /\ Len(pf.log) = 2
    /\ ~pf.log[1].fetched
    /\ pf.log[2].fetched /\ ~IsNone(pf.log[2].error)
    /\ pf.log[2].url # pf.log[1].url
    /\ IsNone(feeds[pf.log[2].url].content)
    /\ feeds[pf.log[2].url].updated_at = Timestamp(pf.log[2].at)
    /\ get_content(feeds, pf.log[2].at, pf.log[1].url, DefaultTtl) = pf.log[1].content

\* The step is fulfill_items_content's cache lookup
LookupStep ==
    /\ pf'.given # <<>>
    /\ pf.pc = "fulfill" \/ (pf.pc = "idle" /\ runNo' # runNo)

\* C20: the fulfillment cache and the feed-content cache are disjoint namespaces: a
\* fulfillment lookup never gets a row written by feed acquisition, and a
\* fulfillment write never overwrites or nulls a row written by feed acquisition,
\* also when an item url is equal to a configured feed url.
C20_DisjointNamespaces ==
    [][ /\ LookupStep =>
              \A k \in pf'.looked_up :
                  (k \in DOMAIN feeds /\ origin[k] = "feed") =>
                      IsNone(get_content(feeds, now, k, DefaultTtl))
        /\ WriteStep =>
              \A k \in WrittenInStep :
                  ~(k \in DOMAIN feeds /\ origin[k] = "feed") ]_vars

----------------------------------------------------------------------------
(* Properties of the pipeline, continued *)

\* What the coroutine of task i returns for the answer the network gave it
ReturnOf(i) ==
    IF tasks[i].kind = "feed"
    THEN fetch_url(tasks[i].asked, Val(tasks[i].resp))
    ELSE fetch_item_content(tasks[i].asked, Val(tasks[i].resp))

\* The number of results of call c that carry url u, and of its tasks asked for u
ResultsFor(c, u) == Cardinality({n \in 1..Len(calls[c].results) : calls[c].results[n].url = u})
AskedFor(c, u) == Cardinality({i \in TasksOf(c) : tasks[i].asked = u})

\* C21: results are correlated by key, never by position: every result a fetch_many
\* call holds carries the url of a request of that call and what that request
\* returned; a returned fetch_urls has one result per submitted url and a returned
\* fetch_items_content one entry per submitted url; and for every completion order
\* process_feeds writes each result's content or error to the row of the result's
\* own url.
C21_CorrelatedByKey ==
    /\ \A c \in 1..Len(calls) :
          /\ \A n \in 1..Len(calls[c].results) :
                \E i \in TasksOf(c) :
                    /\ ~IsNone(tasks[i].resp)
                    /\ calls[c].results[n] = ReturnOf(i)
          /\ calls[c].returned =>
                \A i \in TasksOf(c) :
                    IF calls[c].kind = "feed"
                    THEN ResultsFor(c, tasks[i].asked) = AskedFor(c, tasks[i].asked)
                    ELSE /\ ResultsFor(c, tasks[i].asked) >= 1
                         /\ \E j \in TasksOf(c) :
                               DictValue(calls[c].results, tasks[i].asked) = ReturnOf(j)
    /\ (pf.pc = "fetch_urls" /\ ~IsNone(pf.turn)) =>
          LET res == calls[1].results[pf.idx - 1]
          IN  /\ Val(pf.turn).url = res.url
              /\ feeds[res.url].content = res.content
              /\ feeds[res.url].error_reason = res.error
              /\ feeds[res.url].updated_at = Timestamp(Val(pf.turn).at)
    /\ (pf.pc = "fulfill" /\ pf.cfg.urls # <<>>) =>
          \A n \in 1..Len(pf.log) :
              pf.log[n].fetched =>
                  /\ feeds[pf.log[n].url].content = pf.log[n].content
                  /\ feeds[pf.log[n].url].error_reason = pf.log[n].error

\* C21 witness: of two urls submitted as a, b the request for b ended first; b's
\* result came first and b's row holds it, while a's request has failed and has
\* not been written yet
C21_Witness ==
    /\ pf.pc = "fetch_urls"
    /\ pf.cfg.urls = <<"a", "b">>
    /\ Len(tasks) = 2
    /\ calls[1].returned
    /\ pf.idx = 2
    /\ calls[1].results[1].url = "b"
    /\ calls[1].results[1].content = Some("X")
    /\ feeds["b"].content = Some("X")
    /\ calls[1].results[2].url = "a"
    /\ ~IsNone(calls[1].results[2].error)
    /\ "a" \notin DOMAIN feeds

\* A run of main() has ended
RunEnded == mainRun.state \in {"completed", "raised"}

\* C22: a run always completes and writes one output document for every configured
\* collection, whatever feed fetches, feed parses and item fetches fail: a run that
\* has ended has ended normally with as many documents written as there are
\* collections.
C22_RunWritesEveryCollection ==
    RunEnded => mainRun.state = "completed" /\ mainRun.outputs = mainRun.recipes

\* C23: whenever a run has created the fetcher, the fetcher's client is closed
\* before the run ends, on every exit path, including an exception raised while a
\* collection is being processed or written: a running run holds its fetcher open,
\* the client is open only while the run is running, a run that has ended after it
\* created the fetcher, normally or with an exception, has closed the client, and
\* a run that has ended without a fetcher has ended with an exception before its
\* loop.
C23_FetcherClosedAtExit ==
    /\ mainRun.state = "running" =>
           mainRun.fetcher = "open" /\ fetcher.client = "open"
    /\ mainRun.fetcher = "open" => mainRun.state = "running"
    /\ (RunEnded /\ mainRun.fetcher # "none") =>
           mainRun.fetcher = "closed" /\ fetcher.client = "closed"
    /\ (RunEnded /\ mainRun.fetcher = "none") =>
           /\ mainRun.state = "raised"
           /\ mainRun.outputs = 0
           /\ mainRun.todo = <<>>

\* C23 witness: a run has created the fetcher and written its first collection,
\* process_feeds has raised for the second, and the run has ended with that
\* exception and the client closed
C23_Witness ==
    /\ mainRun.state = "raised"
    /\ mainRun.phase = "processing"
    /\ mainRun.outputs = 1
    /\ Len(mainRun.todo) = 1
    /\ pf.raised
    /\ mainRun.fetcher = "closed"
    /\ fetcher.client = "closed"

\* The last store call was set(k, c, success=true), and so is the one this step
\* makes, if it makes one
SameSuccessfulSetAgain ==
    /\ lastOp.op = "set" /\ lastOp.success
    /\ lastOp'.op = "set" /\ lastOp'.success
    /\ lastOp'.url = lastOp.url
    /\ lastOp'.content = lastOp.content

\* C24: set is idempotent for reads: set(k, c, success=true) called a second time
\* leaves the content, fail_count and error_reason the first call left, and get(k,
\* ttl) answers the same for every ttl that covers both writes; created_at does not
\* change and updated_at can only advance.
C24_SetIdempotentForReads ==
    [][ SameSuccessfulSetAgain =>
           LET k == lastOp.url
           IN  /\ feeds'[k].content = feeds[k].content
               /\ feeds'[k].content = lastOp.content
               /\ feeds'[k].continue_fail_count = feeds[k].continue_fail_count
               /\ feeds'[k].error_reason = feeds[k].error_reason
               /\ feeds'[k].created_at = feeds[k].created_at
               /\ feeds'[k].updated_at >= feeds[k].updated_at
               /\ \A ttl \in AnyTtls :
                     Fresh(feeds[k], now', ttl) =>
                         get_content(feeds', now', k, ttl) = get_content(feeds, now', k, ttl) ]_vars

\* C24 witness: a successful set has just rewritten a row with the content it
\* already held, in a later second than the one the row was created in
C24_Witness ==
    /\ lastOp.op = "set" /\ lastOp.success
    /\ ~IsNone(lastOp.content)
    /\ lastOp.prev.content = lastOp.content
    /\ lastOp.prev.continue_fail_count = 0
    /\ feeds[lastOp.url].content = lastOp.content
    /\ feeds[lastOp.url].updated_at = Timestamp(now)
    /\ feeds[lastOp.url].updated_at > feeds[lastOp.url].created_at

----------------------------------------------------------------------------
(* Properties of the extractor *)

\* A step of the extraction that ran has failed
StepFailed(page) ==
    \/ page.raises \in {"parse", "title", "select"}
    \/ page.raises \in {"clean", "html", "text"} /\ ~IsNone(page.container)

\* C25: extract never raises outward, and when any internal step fails, whichever
\* step it is, it returns the all-null result: title, content_html and content_text
\* are all null.
C25_ExtractFailureIsAllNull ==
    lastOp.op = "extract" =>
        /\ ~lastOp.raised
        /\ StepFailed(lastOp.page) => lastOp.ret = NullResult

----------------------------------------------------------------------------
(* Properties of feed acquisition, continued *)

\* The configured urls for which get returned nothing when the call looked them up
Misses == {pf.lookups[n].url : n \in {x \in 1..Len(pf.lookups) : IsNone(pf.lookups[x].got)}}

\* C26: feed acquisition partitions the configured urls into hits and misses by
\* whether get returns a value, null being distinct from the empty string: a url
\* whose valid cached content is the empty string is a hit and is not sent to the
\* fetcher; exactly the urls for which get returns nothing are fetched.
C26_FetchedAreExactlyTheMisses ==
    /\ (pf.pc = "fetch_urls" /\ pf.idx = 1) =>
          {tasks[i].asked : i \in 1..Len(tasks)} = Misses
    /\ (pf.pc = "fulfill" /\ pf.cfg.urls # <<>>
            /\ \A n \in 1..Len(pf.log) : ~pf.log[n].fetched) =>
          Misses = {}

----------------------------------------------------------------------------
(* Properties of fulfillment, continued *)

\* The extraction results obtained for url u in the call: from the cache, or
\* from a successful fetch
ObtainedFor(u) ==
    {pf.cached[v].get : v \in {w \in DOMAIN pf.cached : w = u}}
    \cup {Val(pf.results[x].item) :
             x \in {y \in 1..Len(pf.results) :
                      /\ pf.results[y].url = u
                      /\ ~IsNone(pf.results[y].item)
                      /\ pf.results[y] = DictValue(pf.results, u)}}

\* C27: when several thin items of one fulfillment call share a url, every one of
\* them receives the merged content obtained for that url, from the cache or from
\* a successful fetch, not only one of them.
C27_EveryItemOfUrlIsMerged ==
    Fulfilled =>
        \A n \in 1..Len(pf.given) :
            ~Substantial(pf.given[n]) =>
                \A c \in ObtainedFor(pf.given[n].url) :
                    pf.items[n] = Merge(pf.given[n], c)

\* The n-th item returned differs from the n-th item given in content_html,
\* content_text and title at most
SameButContent(n) ==
    [pf.items[n] EXCEPT !.content_html = pf.given[n].content_html,
                        !.content_text = pf.given[n].content_text,
                        !.title = pf.given[n].title] = pf.given[n]

\* C28: fulfillment returns exactly the items it was given, the same number in the
\* same order, for every combination of cache hits, fetch successes and fetch
\* failures; an item whose fetch or extraction fails stays in the output with its
\* fields unchanged, and the only fields fulfillment ever changes are content_html,
\* content_text and title of thin items.
C28_ReturnsTheItemsGiven ==
    (pf.pc = "idle" /\ pf.given # <<>>) =>
        /\ ~pf.raised
        /\ Len(pf.items) = Len(pf.given)
        /\ \A n \in 1..Len(pf.given) :
              /\ SameButContent(n)
              /\ Substantial(pf.given[n]) => pf.items[n] = pf.given[n]
              /\ ObtainedFor(pf.given[n].url) = {} => pf.items[n] = pf.given[n]

====
